---- MODULE Spec2Model ----
(***************************************************************************)
(* Model of .kiro/scripts/generate-user-flow-diagram.py: the               *)
(* UserFlowDiagramGenerator pipeline (validate, extract screens, extract   *)
(* navigation, extract user stories, assemble, write) and main().          *)
(* Documents are sequences of one-character strings; the regular           *)
(* expressions of the script are modelled on those sequences.              *)
(***************************************************************************)
EXTENDS Integers, Sequences, FiniteSets, TLC

(***************************************************************************)
(* Characters and the str methods the script uses.                         *)
(***************************************************************************)
Chars(s) == [i \in 1..Len(s) |-> SubSeq(s, i, i)]

LowerLetters == Chars("abcdefghijklmnopqrstuvwxyzàìểừ")
UpperLetters == Chars("ABCDEFGHIJKLMNOPQRSTUVWXYZÀÌỂỪ")
Digits == Chars("0123456789")

Range(f) == {f[i] : i \in DOMAIN f}

LowerSet == Range(LowerLetters)
UpperSet == Range(UpperLetters)
WordSet == LowerSet \cup UpperSet \cup Range(Digits) \cup {"_"}
SpaceSet == {" ", "\n", "\t"}

ToLowerMap == [c \in UpperSet |-> LowerLetters[CHOOSE i \in DOMAIN UpperLetters : UpperLetters[i] = c]]
ToUpperMap == [c \in LowerSet |-> UpperLetters[CHOOSE i \in DOMAIN LowerLetters : LowerLetters[i] = c]]

LowerChar(c) == IF c \in UpperSet THEN ToLowerMap[c] ELSE c
UpperChar(c) == IF c \in LowerSet THEN ToUpperMap[c] ELSE c
IsCased(c) == c \in LowerSet \cup UpperSet

\* str.lower()
Lower(s) == [i \in 1..Len(s) |-> LowerChar(s[i])]

\* str.title(): a cased character is upper-cased when the character before
\* it is not cased, lower-cased otherwise.
Title(s) == [i \in 1..Len(s) |->
               IF i > 1 /\ IsCased(s[i-1]) THEN LowerChar(s[i]) ELSE UpperChar(s[i])]

\* str.strip()
RECURSIVE LStrip(_)
LStrip(s) == IF s # <<>> /\ Head(s) \in SpaceSet THEN LStrip(Tail(s)) ELSE s
RECURSIVE RStrip(_)
RStrip(s) == IF s # <<>> /\ s[Len(s)] \in SpaceSet THEN RStrip(SubSeq(s, 1, Len(s) - 1)) ELSE s
Strip(s) == RStrip(LStrip(s))

\* str.replace(old, new) for single characters
Replace(s, old, new) == [i \in 1..Len(s) |-> IF s[i] = old THEN new ELSE s[i]]

\* 'sub in s'
Contains(sub, s) ==
    \E p \in 1..(Len(s) - Len(sub) + 1) : SubSeq(s, p, p + Len(sub) - 1) = sub

(***************************************************************************)
(* Regular-expression pieces.  Character classes of the patterns:          *)
(*   "ws"  [\w\s]    "s"  \s    "nc"  [^,]    "np"  [^.]                     *)
(***************************************************************************)
WordSpaceSet == WordSet \cup SpaceSet

InClass(cls, c) ==
    CASE cls = "ws" -> c \in WordSpaceSet
      [] cls = "s"  -> c \in SpaceSet
      [] cls = "nc" -> c # ","
      [] cls = "np" -> c # "."

\* First position at or after p whose character is not in the class
\* (Len(text) + 1 when the run reaches the end): where a greedy cls* stops.
RunEnd(text, p, cls) ==
    IF p > Len(text) THEN p
    ELSE CHOOSE q \in p..(Len(text) + 1) :
           /\ q > Len(text) \/ ~InClass(cls, text[q])
           /\ \A r \in p..(q - 1) : InClass(cls, text[r])

\* A literal of a pattern matches at p (re.IGNORECASE).
MatchLit(text, p, lit) ==
    /\ p + Len(lit) - 1 <= Len(text)
    /\ \A i \in 1..Len(lit) : LowerChar(text[p + i - 1]) = LowerChar(lit[i])

Min(S) == CHOOSE q \in S : \A r \in S : q <= r
Max(S) == CHOOSE q \in S : \A r \in S : r <= q

\* First position at or after p where the literal matches, 0 when none.
FirstLit(text, lit, p) ==
    LET at == {q \in p..(Len(text) - Len(lit) + 1) : MatchLit(text, q, lit)}
    IN  IF at = {} THEN 0 ELSE Min(at)

\* re.findall(kw + '([\w\s]+)', text, re.IGNORECASE) from position p on: the
\* captured groups of the non-overlapping matches, left to right.  kw ends
\* with its space; the group is the whole run of [\w\s] after it.
KeywordMatchAt(text, kw, p) ==
    /\ MatchLit(text, p, kw)
    /\ RunEnd(text, p + Len(kw), "ws") > p + Len(kw)

RECURSIVE FindKeyword(_, _, _)
FindKeyword(text, kw, p) ==
    LET at == {q \in p..Len(text) : KeywordMatchAt(text, kw, q)}
    IN  IF at = {} THEN <<>>
        ELSE LET s == Min(at) + Len(kw)
                 e == RunEnd(text, s, "ws")
             IN  <<SubSeq(text, s, e - 1)>> \o FindKeyword(text, kw, e)

LitAsA == Chars("As a")
LitIWant == Chars("I want")
LitSoThat == Chars("So that")

\* re.findall(r'As a.*?I want.*?So that.*?', text, DOTALL | IGNORECASE):
\* the lazy groups stop at the first "I want" and the first "So that" after
\* it, and the trailing lazy group stays empty.
StorySpanEnd(text, p) ==
    LET q == IF MatchLit(text, p, LitAsA)
             THEN FirstLit(text, LitIWant, p + Len(LitAsA)) ELSE 0
        r == IF q # 0 THEN FirstLit(text, LitSoThat, q + Len(LitIWant)) ELSE 0
    IN  IF r # 0 THEN r + Len(LitSoThat) ELSE 0

RECURSIVE FindStorySpans(_, _)
FindStorySpans(text, p) ==
    LET at == {q \in p..Len(text) : StorySpanEnd(text, q) # 0}
    IN  IF at = {} THEN <<>>
        ELSE LET s == Min(at)
                 e == StorySpanEnd(text, s)
             IN  <<SubSeq(text, s, e - 1)>> \o FindStorySpans(text, e)

LitAsA_ == Chars("As a ")
LitIWant_ == Chars("I want ")
LitSoThat_ == Chars("So that ")

\* One match of r'As a ([^,]+),\s*I want ([^,]+),\s*So that ([^.]+)'
\* (IGNORECASE | DOTALL) starting at p: its end and its three groups, end 0
\* when there is none.  Each [^,]+ runs to the next comma, [^.]+ to the next
\* full stop or the end of the text.
StoryMatchAt(text, p) ==
    LET a1 == p + Len(LitAsA_)
        a2 == RunEnd(text, a1, "nc")
        w0 == RunEnd(text, a2 + 1, "s")
        b1 == w0 + Len(LitIWant_)
        b2 == RunEnd(text, b1, "nc")
        s0 == RunEnd(text, b2 + 1, "s")
        c1 == s0 + Len(LitSoThat_)
        c2 == RunEnd(text, c1, "np")
    IN  IF /\ MatchLit(text, p, LitAsA_)
           /\ a2 > a1 /\ a2 <= Len(text)
           /\ MatchLit(text, w0, LitIWant_)
           /\ b2 > b1 /\ b2 <= Len(text)
           /\ MatchLit(text, s0, LitSoThat_)
           /\ c2 > c1
        THEN [end |-> c2,
              groups |-> <<SubSeq(text, a1, a2 - 1), SubSeq(text, b1, b2 - 1),
                           SubSeq(text, c1, c2 - 1)>>]
        ELSE [end |-> 0, groups |-> <<>>]

\* re.findall of the story pattern from position p on.
RECURSIVE FindStories(_, _)
FindStories(text, p) ==
    LET at == {q \in p..Len(text) : StoryMatchAt(text, q).end # 0}
    IN  IF at = {} THEN <<>>
        ELSE LET m == StoryMatchAt(text, Min(at))
             IN  <<m.groups>> \o FindStories(text, m.end)

\* One match of r'([\w\s]+)\s*ARROW\s*([\w\s]+)' starting at p.  Group 1 is
\* greedy, so it is the whole run of [\w\s] from p, which the arrow must
\* follow; group 2 starts after the white space that follows the arrow, or
\* is the last white-space character when nothing else follows.
ArrowMatchAt(text, arrow, p) ==
    LET e  == RunEnd(text, p, "ws")
        a  == e + Len(arrow)
        e2 == RunEnd(text, a, "ws")
        s  == RunEnd(text, a, "s")
    IN  IF e > p /\ MatchLit(text, e, arrow) /\ e2 > a
        THEN [end |-> e2,
              groups |-> <<SubSeq(text, p, e - 1),
                           SubSeq(text, IF s < e2 THEN s ELSE e2 - 1, e2 - 1)>>]
        ELSE [end |-> 0, groups |-> <<>>]

\* re.findall of an arrow pattern from position p on.  The leftmost match
\* starts at p or right after a character outside [\w\s]: a match that
\* starts inside a run also matches one character earlier.
RECURSIVE FindArrows(_, _, _)
FindArrows(text, arrow, p) ==
    LET at == {q \in p..Len(text) :
                 /\ q = p \/ ~InClass("ws", text[q - 1])
                 /\ ArrowMatchAt(text, arrow, q).end # 0}
    IN  IF at = {} THEN <<>>
        ELSE LET m == ArrowMatchAt(text, arrow, Min(at))
             IN  <<m.groups>> \o FindArrows(text, arrow, m.end)

\* One match of lead + r'([\w\s]+)' + mid + r'([\w\s]+)' starting at p.
\* Group 1 is greedy, so the separator is the last one in the run of [\w\s]
\* that leaves group 1 and group 2 non-empty.
FromToMatchAt(text, lead, mid, p) ==
    LET s  == p + Len(lead)
        e  == RunEnd(text, s, "ws")
        ks == {k \in (s + 1)..(e - Len(mid) - 1) : MatchLit(text, k, mid)}
    IN  IF MatchLit(text, p, lead) /\ ks # {}
        THEN [end |-> e,
              groups |-> <<SubSeq(text, s, Max(ks) - 1),
                           SubSeq(text, Max(ks) + Len(mid), e - 1)>>]
        ELSE [end |-> 0, groups |-> <<>>]

\* re.findall of a "from A to B" pattern from position p on.
RECURSIVE FindFromTo(_, _, _, _)
FindFromTo(text, lead, mid, p) ==
    LET at == {q \in p..Len(text) : FromToMatchAt(text, lead, mid, q).end # 0}
    IN  IF at = {} THEN <<>>
        ELSE LET m == FromToMatchAt(text, lead, mid, Min(at))
             IN  <<m.groups>> \o FindFromTo(text, lead, mid, m.end)

(***************************************************************************)
(* The extraction methods, as functions of the file content they read.     *)
(***************************************************************************)
RECURSIVE Concat(_)
Concat(ss) == IF ss = <<>> THEN <<>> ELSE Head(ss) \o Concat(Tail(ss))

screen_patterns ==
    << Chars("màn hình "), Chars("screen "), Chars("page "),
       Chars("view "), Chars("UI "), Chars("interface ") >>

\* The inner loops of extract_screens_from_requirements over one text: every
\* match of every pattern, trimmed and title-cased, kept when longer than 2.
ScreenNamesIn(text) ==
    LET matches == UNION {Range(FindKeyword(text, screen_patterns[k], 1)) :
                            k \in DOMAIN screen_patterns}
    IN  {n \in {Title(Strip(m)) : m \in matches} : Len(n) > 2}

\* The set built by extract_screens_from_requirements: the matches in the
\* whole document and the matches inside each user-story span.
ScreenSetOf(content) ==
    ScreenNamesIn(content)
      \cup UNION {ScreenNamesIn(story) : story \in Range(FindStorySpans(content, 1))}

\* list(screens): the elements of the set in some order.
Orderings(S) ==
    {o \in [1..Cardinality(S) -> S] : \A i, j \in DOMAIN o : o[i] = o[j] => i = j}

ArrowGlyph == Chars("→")
ArrowAscii == Chars("->")
LitFrom == Chars("from ")
LitNavigateFrom == Chars("navigate from ")
LitTo == Chars(" to ")
LitChuyenTu == Chars("chuyển từ ")
LitSang == Chars(" sang ")

\* The matches of the five navigation patterns, pattern after pattern.
NavigationMatches(content) ==
    FindArrows(content, ArrowGlyph, 1)
      \o FindArrows(content, ArrowAscii, 1)
      \o FindFromTo(content, LitFrom, LitTo, 1)
      \o FindFromTo(content, LitNavigateFrom, LitTo, 1)
      \o FindFromTo(content, LitChuyenTu, LitSang, 1)

NavigationFlow(match) ==
    [from |-> Title(Strip(match[1])), to |-> Title(Strip(match[2])), type |-> "navigation"]

\* The list built by extract_navigation_from_design.
NavigationFlowsOf(content) ==
    LET matches == NavigationMatches(content)
    IN  SelectSeq([k \in DOMAIN matches |-> NavigationFlow(matches[k])],
                  LAMBDA f : Len(f.from) > 2 /\ Len(f.to) > 2)

\* f'{n:03d}'
RECURSIVE Decimal(_)
Decimal(n) == IF n < 10 THEN <<Digits[n + 1]>>
              ELSE Decimal(n \div 10) \o <<Digits[(n % 10) + 1]>>
RECURSIVE ZeroPad(_, _)
ZeroPad(s, width) == IF Len(s) >= width THEN s ELSE ZeroPad(<<"0">> \o s, width)

\* Mutant: the id is numbered from i instead of i + 1.
UserStoryZeroBased(i, match) ==
    [id      |-> Chars("US") \o ZeroPad(Decimal(i), 3),
     actor   |-> Strip(match[1]),
     action  |-> Strip(match[2]),
     benefit |-> Strip(match[3])]

UserStory(i, match) ==
    [id      |-> Chars("US") \o ZeroPad(Decimal(i + 1), 3),
     actor   |-> Strip(match[1]),
     action  |-> Strip(match[2]),
     benefit |-> Strip(match[3])]

\* The loop of extract_user_stories: for i, match in enumerate(matches).
RECURSIVE StoryLoop(_, _, _)
StoryLoop(matches, i, acc) ==
    IF i >= Len(matches) THEN acc
    ELSE StoryLoop(matches, i + 1, Append(acc, UserStory(i, matches[i + 1])))

\* The list built by extract_user_stories.
UserStoriesOf(content) == StoryLoop(FindStories(content, 1), 0, <<>>)

(***************************************************************************)
(* The assembler: generate_mermaid_diagram, generate_connection_matrix,    *)
(* the two heuristics and generate_user_flows_content.  The document is a  *)
(* record of its data-dependent sections; the fixed boilerplate is left    *)
(* out.                                                                    *)
(***************************************************************************)
\* None where the other values are node ids, and None where they are reason
\* strings: the values 'if value:' takes as false.
None == <<>>
NoReason == ""

NodeId(i) == Chars("S") \o Decimal(i)

\* screen_ids.get(name): the dict built by the node loop (a later entry for
\* the same key replaces an earlier one).
ScreenIdGet(screens, name) ==
    LET at == {i \in DOMAIN screens : screens[i] = name}
    IN  IF at = {} THEN None ELSE NodeId(CHOOSE i \in at : \A j \in at : j <= i)

\* Mutant: the 'if from_id and to_id' test is left out.
generate_mermaid_diagram_unfiltered(screens, flows) ==
    [nodes |-> [i \in DOMAIN screens |-> [id |-> NodeId(i), label |-> screens[i]]],
     edges |-> [k \in DOMAIN flows |->
                  [from_id |-> ScreenIdGet(screens, flows[k].from),
                   to_id   |-> ScreenIdGet(screens, flows[k].to)]]]

generate_mermaid_diagram(screens, flows) ==
    [nodes |-> [i \in DOMAIN screens |-> [id |-> NodeId(i), label |-> screens[i]]],
     edges |-> SelectSeq(
                 [k \in DOMAIN flows |->
                    [from_id |-> ScreenIdGet(screens, flows[k].from),
                     to_id   |-> ScreenIdGet(screens, flows[k].to)]],
                 LAMBDA e : e.from_id # None /\ e.to_id # None)]

\* Mutant: the comparison of flow['to'] is left out.
HasConnectionFromOnly(flows, a, b) ==
    \E k \in DOMAIN flows : flows[k].from = a

\* any(flow['from'] == a and flow['to'] == b for flow in navigation_flows)
HasConnection(flows, a, b) ==
    \E k \in DOMAIN flows : flows[k].from = a /\ flows[k].to = b

generate_connection_matrix(screens, flows) ==
    [header     |-> screens,
     separators |-> Len(screens) + 1,
     rows       |-> [i \in DOMAIN screens |->
                      [label |-> screens[i],
                       cells |-> [j \in DOMAIN screens |->
                                    HasConnection(flows, screens[i], screens[j])]]]]

_infer_connection_reason(from_screen, to_screen) ==
    LET from_lower == Lower(from_screen)
        to_lower   == Lower(to_screen)
    IN  IF Contains(Chars("list"), from_lower) /\ Contains(Chars("detail"), to_lower)
          THEN "List to detail navigation"
        ELSE IF Contains(Chars("main"), from_lower) \/ Contains(Chars("home"), from_lower)
          THEN "Navigation from main screen"
        ELSE IF Contains(Chars("setting"), to_lower)
          THEN "Access to settings"
        ELSE IF Contains(Chars("profile"), to_lower)
          THEN "Access to user profile"
        ELSE NoReason

\* missing[:5]
MissingLimit == 5

\* The two nested loops of _find_missing_connections, one (i, j) pair per
\* step k = i * n + j, in loop order.
RECURSIVE MissingLoop(_, _, _, _)
MissingLoop(screens, flows, k, missing) ==
    LET n == Len(screens)
        i == k \div n
        j == k % n
        a == screens[i + 1]
        b == screens[j + 1]
        reason == _infer_connection_reason(a, b)
    IN  IF n = 0 \/ k >= n * n THEN missing
        ELSE IF i # j /\ ~HasConnection(flows, a, b) /\ reason # NoReason
          THEN MissingLoop(screens, flows, k + 1,
                           Append(missing, [from |-> a, to |-> b, reason |-> reason]))
        ELSE MissingLoop(screens, flows, k + 1, missing)

\* Mutant: 'return missing' without the slice.
_find_missing_connections_uncut(screens, flows) == MissingLoop(screens, flows, 0, <<>>)

_find_missing_connections(screens, flows) ==
    LET missing == MissingLoop(screens, flows, 0, <<>>)
    IN  SubSeq(missing, 1, IF Len(missing) < MissingLimit THEN Len(missing) ELSE MissingLimit)

_infer_data_type(flow) ==
    LET from_screen == Lower(flow.from)
        to_screen   == Lower(flow.to)
    IN  IF Contains(Chars("list"), from_screen) /\ Contains(Chars("detail"), to_screen)
          THEN "Item ID, Item Data"
        ELSE IF Contains(Chars("form"), from_screen) \/ Contains(Chars("input"), from_screen)
          THEN "Form Data"
        ELSE IF Contains(Chars("setting"), from_screen)
          THEN "Configuration Data"
        ELSE "Navigation State"

generate_user_flows_content(name, now, screens, stories, flows) ==
    LET forward_flows == SelectSeq(flows, LAMBDA f :
                           ~Contains(Chars("back"), Lower(Chars(f.type))))
    IN
    [title              |-> Title(name),
     project            |-> Title(Replace(name, "-", " ")),
     generated          |-> now,
     total_screens      |-> Len(screens),
     total_user_stories |-> Len(stories),
     navigation_flows   |-> Len(flows),
     stories_section    |-> stories # <<>>,
     stories            |-> stories,
     diagram            |-> generate_mermaid_diagram(screens, flows),
     inventory          |-> [i \in DOMAIN screens |-> [number |-> i, name |-> screens[i]]],
     forward            |-> [k \in DOMAIN forward_flows |->
                               <<forward_flows[k].from, forward_flows[k].to>>],
     matrix             |-> generate_connection_matrix(screens, flows),
     missing            |-> _find_missing_connections(screens, flows),
     data_flow          |-> [k \in DOMAIN flows |->
                               [from |-> flows[k].from, to |-> flows[k].to,
                                data |-> _infer_data_type(flows[k]),
                                method |-> "Navigation Args"]]]

(***************************************************************************)
(* Bounds of the model and the documents it is run on.                     *)
(***************************************************************************)
\* lines in the requirements and the design document together
MaxLines == 3
\* the same, where generate() is run more than once
MaxRerunLines == 2
\* runs of generate(), in one process or in successive processes
MaxRuns == 2
\* distinct readings of the wall clock
MaxClock == 2

ReqLines ==
    << Chars("As a user, I want to view the dashboard screen, So that I can check my stats."),
       Chars("view home settings. page main profile. view the dashboard screen."),
       Chars("Nothing to extract here.") >>

DesignLines ==
    << Chars("Dashboard Screen → Settings Screen"),
       Chars("Navigation overview"),
       Chars("navigate from Home Settings to Main Profile.") >>

\* The text of a document: its lines, each ended by a newline.
TextOf(lines, ids) == Concat([i \in DOMAIN ids |-> lines[ids[i]] \o <<"\n">>])

LineIds(lines, n) == UNION {[1..k -> DOMAIN lines] : k \in 0..n}

DocPairs(n) ==
    {<<TextOf(ReqLines, pr[1]), TextOf(DesignLines, pr[2])>> :
        pr \in {qr \in LineIds(ReqLines, n) \X LineIds(DesignLines, n) :
                  Len(qr[1]) + Len(qr[2]) <= n}}

\* sys.argv[1], as in the usage text of the script
project_name == Chars("blood-pressure-tracking")

\* len(sys.argv)
ArgCounts == {1, 2, 3}

Times == 1..MaxClock

\* An output file left by an earlier run on empty documents.
StaleOutput == generate_user_flows_content(project_name, 0, <<>>, <<>>, <<>>)

(***************************************************************************)
(* State.  A path of the file system holds <<>> (no file) or <<data>>.     *)
(***************************************************************************)
VARIABLES
    fs_dir,            \* self.project_path exists
    fs_req,            \* requirements.md
    fs_design,         \* design.md
    fs_out,            \* user-flows.md
    pc,                \* where main() / generate() stands
    screens,           \* self.screens
    navigation_flows,  \* self.navigation_flows
    user_stories,      \* self.user_stories
    content,           \* the local 'content' of generate()
    result,            \* what generate() returned: "none", "True", "False"
    exit_status,       \* the status of sys.exit, -1 while the process runs
    runs,              \* runs of main() / generate() started so far
    trace,             \* the steps the current run has taken
    out_before,        \* user-flows.md when the current run started
    last               \* what the previous run read and extracted

vars == <<fs_dir, fs_req, fs_design, fs_out, pc, screens, navigation_flows,
          user_stories, content, result, exit_status, runs, trace, out_before, last>>

fs == <<fs_dir, fs_req, fs_design, fs_out>>
fields == <<screens, navigation_flows, user_stories>>

NoRun == [ran |-> FALSE, req |-> <<>>, design |-> <<>>, screens |-> {},
          navigation_flows |-> <<>>, user_stories |-> <<>>]

InitOn(pairs) ==
    /\ fs_dir \in BOOLEAN
    /\ \E docs \in pairs :
         /\ fs_req \in (IF fs_dir THEN {<<>>, <<docs[1]>>} ELSE {<<>>})
         /\ fs_design \in (IF fs_dir THEN {<<>>, <<docs[2]>>} ELSE {<<>>})
    /\ fs_out \in (IF fs_dir THEN {<<>>, <<StaleOutput>>} ELSE {<<>>})
    /\ pc = "start"
    /\ screens = <<>>
    /\ navigation_flows = <<>>
    /\ user_stories = <<>>
    /\ content = <<>>
    /\ result = "none"
    /\ exit_status = -1
    /\ runs = 1
    /\ trace = <<>>
    /\ out_before = fs_out
    /\ last = NoRun

Init == InitOn(DocPairs(MaxLines))

\* Mutant: the check of the design file is forgotten.
validate_without_design_check == fs_dir /\ fs_req # <<>>

\* Mutant: an empty input file is taken as a failure.
validate_rejecting_empty_files ==
    /\ fs_dir /\ fs_req # <<>> /\ fs_design # <<>>
    /\ fs_req[1] # <<>> /\ fs_design[1] # <<>>

\* validate_project_structure
validate_project_structure == fs_dir /\ fs_req # <<>> /\ fs_design # <<>>

\* main() with a wrong argument count: usage text, sys.exit(1)
MainUsage ==
    /\ pc = "start"
    /\ \E argc \in ArgCounts : argc # 2
    /\ pc' = "exit"
    /\ exit_status' = 1
    /\ trace' = <<"usage">>
    /\ UNCHANGED <<fs, fields, content, result, runs, out_before, last>>

\* main() with one argument: UserFlowDiagramGenerator(project_name), then
\* the call of generate()
MainGenerate ==
    /\ pc = "start"
    /\ \E argc \in ArgCounts : argc = 2
    /\ screens' = <<>>
    /\ navigation_flows' = <<>>
    /\ user_stories' = <<>>
    /\ pc' = "validate"
    /\ UNCHANGED <<fs, content, result, exit_status, runs, trace, out_before, last>>

\* generate(): if not self.validate_project_structure(): return False
Validate ==
    /\ pc = "validate"
    /\ trace' = Append(trace, "validate")
    /\ IF validate_project_structure
         THEN pc' = "extract_screens" /\ UNCHANGED result
         ELSE pc' = "return" /\ result' = "False"
    /\ UNCHANGED <<fs, fields, content, exit_status, runs, out_before, last>>

\* self.extract_screens_from_requirements(); list(screens) yields the set
\* in an order the language does not fix
ExtractScreens ==
    /\ pc = "extract_screens"
    /\ \E order \in Orderings(ScreenSetOf(fs_req[1])) : screens' = order
    /\ pc' = "extract_navigation"
    /\ trace' = Append(trace, "extract_screens")
    /\ UNCHANGED <<fs, navigation_flows, user_stories, content, result, exit_status,
                   runs, out_before, last>>

\* self.extract_navigation_from_design()
ExtractNavigation ==
    /\ pc = "extract_navigation"
    /\ navigation_flows' = NavigationFlowsOf(fs_design[1])
    /\ pc' = "extract_user_stories"
    /\ trace' = Append(trace, "extract_navigation")
    /\ UNCHANGED <<fs, screens, user_stories, content, result, exit_status,
                   runs, out_before, last>>

\* Mutant: the stories are added to self.user_stories instead of replacing it.
ExtractUserStoriesExtend ==
    /\ pc = "extract_user_stories"
    /\ user_stories' = user_stories \o UserStoriesOf(fs_req[1])
    /\ pc' = "generate_content"
    /\ trace' = Append(trace, "extract_user_stories")
    /\ UNCHANGED <<fs, screens, navigation_flows, content, result, exit_status,
                   runs, out_before, last>>

\* self.extract_user_stories()
ExtractUserStories ==
    /\ pc = "extract_user_stories"
    /\ user_stories' = UserStoriesOf(fs_req[1])
    /\ pc' = "generate_content"
    /\ trace' = Append(trace, "extract_user_stories")
    /\ UNCHANGED <<fs, screens, navigation_flows, content, result, exit_status,
                   runs, out_before, last>>

\* content = self.generate_user_flows_content()
GenerateContent ==
    /\ pc = "generate_content"
    /\ \E now \in Times :
         content' = generate_user_flows_content(project_name, now, screens,
                                                user_stories, navigation_flows)
    /\ pc' = "write"
    /\ trace' = Append(trace, "generate_content")
    /\ last' = [ran |-> TRUE, req |-> fs_req[1], design |-> fs_design[1],
                screens |-> Range(screens), navigation_flows |-> navigation_flows,
                user_stories |-> user_stories]
    /\ UNCHANGED <<fs, fields, result, exit_status, runs, out_before>>

\* Mutant: the file is opened with 'a', the document lands after the old one.
WriteOutputAppend ==
    /\ pc = "write"
    /\ fs_out' = fs_out \o <<content>>
    /\ result' = "True"
    /\ pc' = "return"
    /\ trace' = Append(trace, "write")
    /\ UNCHANGED <<fs_dir, fs_req, fs_design, fields, content, exit_status, runs,
                   out_before, last>>

\* with open(self.user_flows_file, 'w') as f: f.write(content); return True
WriteOutput ==
    /\ pc = "write"
    /\ fs_out' = <<content>>
    /\ result' = "True"
    /\ pc' = "return"
    /\ trace' = Append(trace, "write")
    /\ UNCHANGED <<fs_dir, fs_req, fs_design, fields, content, exit_status, runs,
                   out_before, last>>

\* main(): sys.exit(0 if success else 1)
Exit ==
    /\ pc = "return"
    /\ exit_status' = (IF result = "True" THEN 0 ELSE 1)
    /\ pc' = "exit"
    /\ UNCHANGED <<fs, fields, content, result, runs, trace, out_before, last>>

Next ==
    \/ MainUsage
    \/ MainGenerate
    \/ Validate
    \/ ExtractScreens
    \/ ExtractNavigation
    \/ ExtractUserStories
    \/ GenerateContent
    \/ WriteOutput
    \/ Exit

Spec == Init /\ [][Next]_vars

(***************************************************************************)
(* Runs after the first: generate() is called again on the same generator, *)
(* or the script is started again.  The files stay as they are.            *)
(***************************************************************************)
\* generate() called once more on the generator that has just returned
GenerateAgain ==
    /\ pc = "return"
    /\ runs < MaxRuns
    /\ pc' = "validate"
    /\ result' = "none"
    /\ content' = <<>>
    /\ runs' = runs + 1
    /\ trace' = <<>>
    /\ out_before' = fs_out
    /\ UNCHANGED <<fs, fields, exit_status, last>>

\* the script started once more after the process has ended
NewProcess ==
    /\ pc = "exit"
    /\ runs < MaxRuns
    /\ pc' = "start"
    /\ result' = "none"
    /\ content' = <<>>
    /\ exit_status' = -1
    /\ runs' = runs + 1
    /\ trace' = <<>>
    /\ out_before' = fs_out
    /\ UNCHANGED <<fs, fields, last>>

InitRerun == InitOn(DocPairs(MaxRerunLines))

NextRerun == Next \/ GenerateAgain \/ NewProcess

SpecRerun == InitRerun /\ [][NextRerun]_vars

(***************************************************************************)
(* Properties.                                                             *)
(***************************************************************************)
StepOrder == <<"validate", "extract_screens", "extract_navigation",
               "extract_user_stories", "generate_content", "write">>

IsPrefix(s, t) == Len(s) <= Len(t) /\ SubSeq(t, 1, Len(s)) = s

Did(step) == step \in Range(trace)

\* the project directory, the requirements file or the design file is missing
Missing == ~fs_dir \/ fs_req = <<>> \/ fs_design = <<>>

ScreenNames == Range(screens)

\* C1: when the project directory, the requirements file or the design file
\* is missing, generate() stops after validation: no extraction step and no
\* write is executed, it returns False, the process exits with status 1, and
\* user-flows.md is as it was before the run (absent, or with the same
\* content).
C1_FailedValidationWritesNothing ==
    (Did("validate") /\ Missing) =>
        /\ trace = <<"validate">>
        /\ pc \in {"return", "exit"}
        /\ result = "False"
        /\ pc = "exit" => exit_status = 1
        /\ fs_out = out_before
        /\ fields = <<<<>>, <<>>, <<>>>>

C1_Witness ==
    /\ pc = "exit" /\ exit_status = 1 /\ result = "False"
    /\ Did("validate") /\ fs_dir /\ fs_req # <<>> /\ fs_design = <<>>
    /\ fs_out = <<StaleOutput>>

\* C2: the connection matrix has exactly one row and one column per
\* extracted screen, every row has one cell per column, and the cell of row
\* A and column B is marked present exactly when some extracted flow has
\* from = A and to = B.
C2_MatrixMatchesFlows ==
    Did("generate_content") =>
        LET m == content.matrix
        IN  /\ Len(m.rows) = Cardinality(ScreenNames)
            /\ Len(m.header) = Cardinality(ScreenNames)
            /\ \A sc \in ScreenNames :
                 /\ Cardinality({i \in DOMAIN m.rows : m.rows[i].label = sc}) = 1
                 /\ Cardinality({j \in DOMAIN m.header : m.header[j] = sc}) = 1
            /\ \A i \in DOMAIN m.rows :
                 /\ Len(m.rows[i].cells) = Len(m.header)
                 /\ \A j \in DOMAIN m.header :
                      m.rows[i].cells[j] <=>
                        \E k \in DOMAIN navigation_flows :
                           /\ navigation_flows[k].from = m.rows[i].label
                           /\ navigation_flows[k].to = m.header[j]

C2_Witness ==
    /\ Did("generate_content")
    /\ Len(screens) = 3
    /\ \E i, j \in DOMAIN screens : i # j /\ content.matrix.rows[i].cells[j]
    /\ \E i, j \in DOMAIN screens : i # j /\ ~content.matrix.rows[i].cells[j]

\* C3: the missing-connection list has at most 5 entries, every entry is a
\* pair of two distinct extracted screens, and no entry is a pair that an
\* extracted flow connects, that is a pair whose matrix cell is marked
\* present.
C3_MissingListCappedAndAbsent ==
    Did("generate_content") =>
        LET ms == content.missing
            m  == content.matrix
        IN  /\ Len(ms) <= 5
            /\ \A k \in DOMAIN ms :
                 /\ ms[k].from \in ScreenNames
                 /\ ms[k].to \in ScreenNames
                 /\ ms[k].from # ms[k].to
                 /\ ~\E f \in DOMAIN navigation_flows :
                       /\ navigation_flows[f].from = ms[k].from
                       /\ navigation_flows[f].to = ms[k].to
                 /\ \A i \in DOMAIN m.rows, j \in DOMAIN m.header :
                      (m.rows[i].label = ms[k].from /\ m.header[j] = ms[k].to)
                         => ~m.rows[i].cells[j]

\* six pairs have a reason and no flow: the list is cut to five
C3_Witness ==
    /\ Did("generate_content")
    /\ Len(content.missing) = 5
    /\ Cardinality({pr \in ScreenNames \X ScreenNames :
                      /\ pr[1] # pr[2]
                      /\ _infer_connection_reason(pr[1], pr[2]) # NoReason
                      /\ ~HasConnection(navigation_flows, pr[1], pr[2])}) > 5

\* C4 (as claimed): with the requirements line "As a user, I want to view
\* the dashboard screen, So that I can check my stats." and the design line
\* "Dashboard Screen -> Settings Screen" (arrow glyph), the document lists
\* story US001 with actor "user", has "Dashboard Screen" and "Settings
\* Screen" in the screen inventory, and marks the matrix cell from Dashboard
\* Screen to Settings Screen present.
C4_EndToEndScenario ==
    (/\ Did("generate_content")
     /\ Contains(ReqLines[1], fs_req[1])
     /\ Contains(DesignLines[1], fs_design[1])) =>
        LET inv == {content.inventory[i].name : i \in DOMAIN content.inventory}
            m   == content.matrix
        IN  /\ \E k \in DOMAIN content.stories :
                 /\ content.stories[k].id = Chars("US001")
                 /\ content.stories[k].actor = Chars("user")
            /\ Chars("Dashboard Screen") \in inv
            /\ Chars("Settings Screen") \in inv
            /\ \E i \in DOMAIN m.rows, j \in DOMAIN m.header :
                 /\ m.rows[i].label = Chars("Dashboard Screen")
                 /\ m.header[j] = Chars("Settings Screen")
                 /\ m.rows[i].cells[j]

\* The lines of a text.
LinesOf(text) ==
    LET ends == {i \in DOMAIN text : text[i] = "\n"} \cup {Len(text) + 1}
    IN  {SubSeq(text, b, Min({e \in ends : e >= b}) - 1) :
           b \in {1} \cup {e + 1 : e \in {i \in ends : i < Len(text)}}}

\* A line of the form A -> B (arrow glyph), A and B made of word characters
\* and blanks, each longer than 2 when trimmed: the pairs <<A, B>>.
ArrowLineParts(line) ==
    {<<SubSeq(line, 1, a - 1), SubSeq(line, a + 1, Len(line))>> :
       a \in {p \in DOMAIN line :
                /\ line[p] = "→"
                /\ \A q \in DOMAIN line \ {p} : line[q] \in WordSet \cup {" "}
                /\ Len(Strip(SubSeq(line, 1, p - 1))) > 2
                /\ Len(Strip(SubSeq(line, p + 1, Len(line)))) > 2}}

\* C5 (as claimed): for every line "A -> B" (arrow glyph) of the design
\* document with trimmed A and B longer than 2 characters, the extracted
\* flows contain a record with from = title-cased A, to = title-cased B and
\* type "navigation", whatever the other lines are.
C5_ArrowLineYieldsFlow ==
    Did("extract_navigation") =>
        \A line \in LinesOf(fs_design[1]) :
          \A ab \in ArrowLineParts(line) :
            \E k \in DOMAIN navigation_flows :
               navigation_flows[k] = [from |-> Title(Strip(ab[1])),
                                      to   |-> Title(Strip(ab[2])),
                                      type |-> "navigation"]

\* the screen a node id of the diagram stands for
LabelOf(id) ==
    LET n == content.diagram.nodes
    IN  n[CHOOSE i \in DOMAIN n : n[i].id = id].label

Unrendered == {k \in DOMAIN navigation_flows :
                 \/ navigation_flows[k].from \notin ScreenNames
                 \/ navigation_flows[k].to \notin ScreenNames}

\* C6: a flow with an endpoint outside the extracted screens gives no edge
\* of the diagram and marks no cell of the matrix, and still has its row in
\* the data-flow table: that table has one row per extracted flow, in
\* extraction order, duplicates included, and the diagram has one edge per
\* flow with both endpoints among the screens, in the same order.
C6_UnmatchedFlowsOnlyInDataFlowTable ==
    Did("generate_content") =>
        LET d  == content.data_flow
            e  == content.diagram.edges
            m  == content.matrix
            rendered == SelectSeq(navigation_flows,
                          LAMBDA f : f.from \in ScreenNames /\ f.to \in ScreenNames)
        IN  /\ Len(d) = Len(navigation_flows)
            /\ \A k \in DOMAIN d :
                 d[k].from = navigation_flows[k].from /\ d[k].to = navigation_flows[k].to
            /\ Len(e) = Len(rendered)
            /\ \A k \in DOMAIN e :
                 /\ \E i \in DOMAIN content.diagram.nodes : content.diagram.nodes[i].id = e[k].from_id
                 /\ \E i \in DOMAIN content.diagram.nodes : content.diagram.nodes[i].id = e[k].to_id
                 /\ LabelOf(e[k].from_id) = rendered[k].from
                 /\ LabelOf(e[k].to_id) = rendered[k].to
            /\ \A k \in Unrendered :
                 ~\E i \in DOMAIN m.rows, j \in DOMAIN m.header :
                     /\ m.rows[i].label = navigation_flows[k].from
                     /\ m.header[j] = navigation_flows[k].to
                     /\ m.rows[i].cells[j]

\* a flow outside the screens, and a duplicated flow inside them
C6_Witness ==
    /\ Did("generate_content")
    /\ Unrendered # {}
    /\ \E j, k \in DOMAIN navigation_flows \ Unrendered :
          j # k /\ navigation_flows[j] = navigation_flows[k]
    /\ Len(content.diagram.edges) = 2
    /\ Len(content.data_flow) = 3

\* C7: when the extraction has run before on the same requirements and design
\* content, the run that has just finished extracting has the same set of
\* screens and the same lists of stories and of flows, whatever the first
\* run left in the generator or on disk.
C7_ExtractionRepeats ==
    (/\ pc = "generate_content"
     /\ last.ran
     /\ last.req = fs_req[1]
     /\ last.design = fs_design[1]) =>
        /\ ScreenNames = last.screens
        /\ user_stories = last.user_stories
        /\ navigation_flows = last.navigation_flows

C7_Witness ==
    /\ pc = "generate_content" /\ last.ran /\ runs = 2
    /\ last.req = fs_req[1] /\ last.design = fs_design[1]
    /\ screens # <<>> /\ user_stories # <<>> /\ navigation_flows # <<>>
    /\ fs_out # <<>> /\ fs_out # <<StaleOutput>>

\* C8: when the directory and both input files exist, generate() never
\* fails, whatever the documents hold: it writes the document, returns True
\* and the process exits with status 0; with nothing extracted the
\* inventory, the matrix rows and the matrix columns are empty.
C8_EmptyResultsAreNoError ==
    (Did("validate") /\ ~Missing) =>
        /\ result # "False"
        /\ pc \in {"return", "exit"} =>
             /\ result = "True"
             /\ Did("write")
             /\ fs_out = <<content>>
             /\ content.total_screens = Len(screens)
             /\ screens = <<>> =>
                  /\ content.inventory = <<>>
                  /\ content.matrix.rows = <<>>
                  /\ content.matrix.header = <<>>
        /\ pc = "exit" => exit_status = 0

C8_Witness ==
    /\ pc = "exit" /\ exit_status = 0 /\ result = "True"
    /\ screens = <<>> /\ user_stories = <<>> /\ navigation_flows = <<>>
    /\ fs_out = <<content>>
    /\ content.inventory = <<>> /\ content.matrix.rows = <<>>

\* 'US' and k in three digits
StoryId(k) == <<"U", "S", Digits[(k \div 100) + 1], Digits[((k \div 10) % 10) + 1],
                Digits[(k % 10) + 1]>>

\* C9: the story list has exactly one record per match of the story
\* template, in the order of the matches; the k-th record carries the
\* trimmed groups of the k-th match and the id US followed by k in three
\* digits, so the ids are pairwise distinct and increase along the list.
C9_OneStoryPerMatch ==
    Did("extract_user_stories") =>
        LET matches == FindStories(fs_req[1], 1)
        IN  /\ Len(user_stories) = Len(matches)
            /\ \A k \in DOMAIN user_stories :
                 /\ user_stories[k].id = StoryId(k)
                 /\ user_stories[k].actor = Strip(matches[k][1])
                 /\ user_stories[k].action = Strip(matches[k][2])
                 /\ user_stories[k].benefit = Strip(matches[k][3])
            /\ \A j, k \in DOMAIN user_stories :
                 j # k => user_stories[j].id # user_stories[k].id

\* two matches with the same content stay two records
C9_Witness ==
    /\ Did("extract_user_stories")
    /\ Len(user_stories) = 2
    /\ user_stories[1].actor = user_stories[2].actor
    /\ user_stories[1].action = user_stories[2].action
    /\ user_stories[1].benefit = user_stories[2].benefit
    /\ user_stories[1].id = Chars("US001") /\ user_stories[2].id = Chars("US002")

\* C10: a run of generate() takes its steps in the order validate, extract
\* screens, extract navigation, extract user stories, assemble, write;
\* user-flows.md differs from what it was at the start of the run only
\* after the write step, which comes once and last; what is written is the
\* document assembled from the screens, stories and flows of the current
\* requirements and design files (under the run's project name and clock
\* reading), whatever the file held before.
C10_OrderedStepsSingleOverwrite ==
    /\ trace = <<"usage">> \/ IsPrefix(trace, StepOrder)
    /\ Cardinality({i \in DOMAIN trace : trace[i] = "write"}) <= 1
    /\ ~Did("write") => fs_out = out_before
    /\ Did("write") =>
         /\ ~Missing
         /\ fs_out = <<content>>
         /\ ScreenNames = ScreenSetOf(fs_req[1])
         /\ Len(screens) = Cardinality(ScreenNames)
         /\ content.generated \in Times
         /\ content = generate_user_flows_content(
                        project_name, content.generated, screens,
                        UserStoriesOf(fs_req[1]), NavigationFlowsOf(fs_design[1]))

C10_Witness ==
    /\ pc = "exit" /\ Did("write")
    /\ out_before = <<StaleOutput>>
    /\ fs_out # out_before
    /\ screens # <<>> /\ user_stories # <<>> /\ navigation_flows # <<>>

====
